---- MODULE Spec2Model ----
(***************************************************************************)
(* r-mmdc: sampling of the i.MX6 MMDC performance counters.                *)
(*                                                                         *)
(* The model follows src/src/main.rs: main() applies the options and runs  *)
(* opt.cycles measuring cycles; each cycle writes the control register     *)
(* madpcr0 (clear, start, freeze, stop), reads the six accumulators        *)
(* madpsr0..madpsr5 into an MMDCProfileResult and prints one record.       *)
(*                                                                         *)
(* Numbers.  u32 values are integers; every value the model reaches is     *)
(* below 2^31, except the saturated result of a float-to-u32 cast, which   *)
(* is held as its 32-bit pattern 0xFFFFFFFF (U32_MAX).  f32 values are     *)
(* modelled exactly: a finite non-negative f32 is m * 2^e with m <= 2^24,  *)
(* and every operation rounds to nearest, ties to even, as IEEE-754        *)
(* binary32 does.  The exponent range of f32 is not modelled: all values   *)
(* derived from u32 operands lie far inside it.                            *)
(***************************************************************************)
EXTENDS Integers, Sequences, FiniteSets, TLC

(***************************************************************************)
(* Bounds of the model.                                                    *)
(***************************************************************************)
\* largest configured cycle count (-c) explored
MaxCycles == 2

(***************************************************************************)
(* 32-bit helpers.                                                         *)
(***************************************************************************)
\* 0xFFFFFFFF, the value `f32 as u32` saturates to; as a 32-bit pattern
U32_MAX == 0 - 1

Pow2(n) == 2 ^ n

\* bit n of the register value x
Bit(x, n) == (x \div Pow2(n)) % 2

\* x | (1 << n)
OrBit(x, n) == IF Bit(x, n) = 1 THEN x ELSE x + Pow2(n)

RECURSIVE BitLen(_)
\* number of significant bits of m (0 for m = 0)
BitLen(m) == IF m = 0 THEN 0 ELSE 1 + BitLen(m \div 2)

Min(a, b) == IF a <= b THEN a ELSE b

(***************************************************************************)
(* IEEE-754 binary32 arithmetic on non-negative values.                    *)
(***************************************************************************)
F32Inf == [k |-> "inf", m |-> 0, e |-> 0]
F32NaN == [k |-> "nan", m |-> 0, e |-> 0]
F32Fin(m, e) == [k |-> "fin", m |-> m, e |-> e]

\* m * 2^e (plus, when sticky, a non-zero fraction below the last bit of m)
\* rounded to 24 significant bits, to nearest, ties to even
RoundF32(m, e, sticky) ==
    LET s == BitLen(m) - 24
    IN  IF s <= 0
        THEN F32Fin(m, e)
        ELSE LET t    == m \div Pow2(s)
                 rem  == m % Pow2(s)
                 half == Pow2(s - 1)
                 up   == \/ rem > half
                         \/ rem = half /\ (sticky \/ t % 2 = 1)
             IN  F32Fin(IF up THEN t + 1 ELSE t, e + s)

\* `x as f32` for an unsigned integer x
U32ToF32(x) == RoundF32(x, 0, FALSE)

\* a + b
F32Add(a, b) ==
    IF a.k = "nan" \/ b.k = "nan" THEN F32NaN
    ELSE IF a.k = "inf" \/ b.k = "inf" THEN F32Inf
    ELSE LET e == Min(a.e, b.e)
         IN  RoundF32(a.m * Pow2(a.e - e) + b.m * Pow2(b.e - e), e, FALSE)

\* a * b
F32Mul(a, b) ==
    IF a.k = "nan" \/ b.k = "nan" THEN F32NaN
    ELSE IF a.k = "inf" \/ b.k = "inf"
         THEN IF (a.k = "fin" /\ a.m = 0) \/ (b.k = "fin" /\ b.m = 0)
              THEN F32NaN ELSE F32Inf
    ELSE RoundF32(a.m * b.m, a.e + b.e, FALSE)

RECURSIVE LongDiv(_, _, _, _)
\* binary long division: q is the quotient so far, r the remainder (r < d),
\* e the exponent of the last quotient bit; stops when the quotient is exact
\* or has 25 bits (24 plus a guard bit), the remainder giving the sticky bit
LongDiv(q, r, d, e) ==
    IF r = 0 THEN RoundF32(q, e, FALSE)
    ELSE IF q >= Pow2(24) THEN RoundF32(q, e, TRUE)
    ELSE IF 2 * r >= d THEN LongDiv(2 * q + 1, 2 * r - d, d, e - 1)
    ELSE LongDiv(2 * q, 2 * r, d, e - 1)

\* a / b : x/0 is +inf for x > 0 and NaN for x = 0
F32Div(a, b) ==
    IF a.k = "nan" \/ b.k = "nan" THEN F32NaN
    ELSE IF a.k = "inf" THEN IF b.k = "inf" THEN F32NaN ELSE F32Inf
    ELSE IF b.k = "inf" THEN F32Fin(0, 0)
    ELSE IF b.m = 0 THEN IF a.m = 0 THEN F32NaN ELSE F32Inf
    ELSE LongDiv(a.m \div b.m, a.m % b.m, b.m, a.e - b.e)

\* `x as u32`: truncation toward zero, NaN to 0, saturating at u32::MAX
F32ToU32(x) ==
    IF x.k = "nan" THEN 0
    ELSE IF x.k = "inf" THEN U32_MAX
    ELSE IF x.e >= 0
         THEN IF BitLen(x.m) + x.e > 32 THEN U32_MAX ELSE x.m * Pow2(x.e)
    ELSE IF 0 - x.e >= 31 THEN 0
    ELSE x.m \div Pow2(0 - x.e)

\* "{:.2}": the value in hundredths, rounded to nearest, ties to even
Fmt2(x) ==
    IF x.k = "nan" THEN [k |-> "NaN", cents |-> 0]
    ELSE IF x.k = "inf" THEN [k |-> "inf", cents |-> 0]
    ELSE LET c == x.m * 100
         IN  IF x.e >= 0 THEN [k |-> "num", cents |-> c * Pow2(x.e)]
             ELSE IF 0 - x.e >= 32 THEN [k |-> "num", cents |-> 0]
             ELSE LET h == Pow2(0 - x.e - 1)
                      t == c \div h
                      r == c % h
                      q == t \div 2
                      up == t % 2 = 1 /\ (r > 0 \/ q % 2 = 1)
                  IN  [k |-> "num", cents |-> IF up THEN q + 1 ELSE q]

(***************************************************************************)
(* Metrics derivation and the per-cycle output record.                     *)
(***************************************************************************)
\* a default that is not zero in the write burst size
MMDCProfileResultDefault_Stale ==
    [total_cycles |-> 0, busy_cycles |-> 0, read_accesses |-> 0,
     write_accesses |-> 0, read_bytes |-> 0, write_bytes |-> 0,
     data_load |-> 0, utilization |-> 0, access_utilization |-> 0,
     avg_write_burstsize |-> 1, avg_read_burstsize |-> 0]

\* #[derive(Default)] struct MMDCProfileResult
MMDCProfileResultDefault ==
    [total_cycles |-> 0, busy_cycles |-> 0, read_accesses |-> 0,
     write_accesses |-> 0, read_bytes |-> 0, write_bytes |-> 0,
     data_load |-> 0, utilization |-> 0, access_utilization |-> 0,
     avg_write_burstsize |-> 0, avg_read_burstsize |-> 0]

\* the three derived metrics, computed in f32 and cast back to u32
Utilization(r) ==
    F32ToU32(F32Mul(F32Div(F32Add(U32ToF32(r.read_bytes), U32ToF32(r.write_bytes)),
                           F32Mul(U32ToF32(r.busy_cycles), U32ToF32(16))),
                    U32ToF32(100)))

DataLoad(r) ==
    F32ToU32(F32Mul(F32Div(U32ToF32(r.busy_cycles), U32ToF32(r.total_cycles)),
                    U32ToF32(100)))

AccessUtilization(r) ==
    F32ToU32(F32Div(F32Add(U32ToF32(r.read_bytes), U32ToF32(r.write_bytes)),
                    F32Add(U32ToF32(r.read_accesses), U32ToF32(r.write_accesses))))

\* the derived metrics computed without the guard
BytesSeen_Always(r) == TRUE

\* the guard of the derived metrics
BytesSeen(r) == r.read_bytes # 0 \/ r.write_bytes # 0

\* read bytes divided by the write accesses
WriteBurst_ReadBytes(mmdc) == mmdc.madpsr4 \div mmdc.madpsr3

\* u32 division of the write burst size
WriteBurst(mmdc) == mmdc.madpsr5 \div mmdc.madpsr3

\* u32 division of the read burst size
ReadBurst(mmdc) == mmdc.madpsr4 \div mmdc.madpsr2

\* fn get_mmdc_profiling_results(mmdc: &MMDC) -> MMDCProfileResult
get_mmdc_profiling_results(mmdc) ==
    LET raw == [MMDCProfileResultDefault EXCEPT
                    !.total_cycles   = mmdc.madpsr0,
                    !.busy_cycles    = mmdc.madpsr1,
                    !.read_accesses  = mmdc.madpsr2,
                    !.write_accesses = mmdc.madpsr3,
                    !.read_bytes     = mmdc.madpsr4,
                    !.write_bytes    = mmdc.madpsr5]
        derived == IF BytesSeen(raw)
                   THEN [raw EXCEPT !.utilization        = Utilization(raw),
                                    !.data_load          = DataLoad(raw),
                                    !.access_utilization = AccessUtilization(raw)]
                   ELSE raw
        wburst == IF mmdc.madpsr3 > 0
                  THEN [derived EXCEPT !.avg_write_burstsize = WriteBurst(mmdc)]
                  ELSE derived
    IN  IF mmdc.madpsr2 > 0
        THEN [wburst EXCEPT !.avg_read_burstsize = ReadBurst(mmdc)]
        ELSE wburst

\* bytes * 1000 / (1024 * 1024 * time), in f32
Throughput(bytes, time) ==
    F32Div(F32Mul(bytes, U32ToF32(1000)),
           F32Mul(F32Mul(U32ToF32(1024), U32ToF32(1024)), U32ToF32(time)))

\* the byte counter print_profiling_results derives the read rate from
AvgReadBytes(profiling_result) == profiling_result.write_bytes

\* the byte counter print_profiling_results derives the write rate from
AvgWriteBytes(profiling_result) == profiling_result.write_bytes

\* fn print_profiling_results: the fifteen fields of the record it prints
\* (the same values in the delimited and in the labelled rendering)
print_profiling_results(profiling_result, time) ==
    [time                |-> time,
     total_cycles        |-> profiling_result.total_cycles,
     busy_cycles         |-> profiling_result.busy_cycles,
     read_accesses       |-> profiling_result.read_accesses,
     write_accesses      |-> profiling_result.write_accesses,
     read_bytes          |-> profiling_result.read_bytes,
     write_bytes         |-> profiling_result.write_bytes,
     avg_read_burstsize  |-> profiling_result.avg_read_burstsize,
     avg_write_burstsize |-> profiling_result.avg_write_burstsize,
     avg_read            |-> Fmt2(Throughput(U32ToF32(AvgReadBytes(profiling_result)), time)),
     avg_write           |-> Fmt2(Throughput(U32ToF32(AvgWriteBytes(profiling_result)), time)),
     total               |-> Fmt2(Throughput(F32Add(U32ToF32(profiling_result.write_bytes),
                                                    U32ToF32(profiling_result.read_bytes)),
                                             time)),
     utilization         |-> profiling_result.utilization,
     data_load           |-> profiling_result.data_load,
     access_utilization  |-> profiling_result.access_utilization]

(***************************************************************************)
(* The register window: struct MMDC laid over the mapped 0x4000 bytes.     *)
(* Every field is a u32 or an array of u32, so there is no padding, and    *)
(* the fields are taken in declaration order, as rustc lays out a struct   *)
(* whose fields all have the same alignment.                               *)
(***************************************************************************)
\* bytes of a u32
WORD == 4
\* length of adopt_base_offset_fill and of phy_base_offset_fill, in words
FILL_WORDS == 239
\* length of the mapping made by main
MAP_LENGTH == 16384

\* the fields of struct MMDC in declaration order, each with its words
MMDC ==
    << <<"mdctl", 1>>, <<"mdpdc", 1>>, <<"mdotc", 1>>, <<"mdcfg0", 1>>,
       <<"mdcfg1", 1>>, <<"mdcfg2", 1>>, <<"mdmisc", 1>>, <<"mdscr", 1>>,
       <<"mdref", 1>>, <<"mdwcc", 1>>, <<"mdrcc", 1>>, <<"mdrwd", 1>>,
       <<"mdor", 1>>, <<"mdmrr", 1>>, <<"mdcfg3lp", 1>>, <<"mdmr4", 1>>,
       <<"mdasp", 1>>,
       <<"adopt_base_offset_fill", FILL_WORDS>>,
       <<"maarcr", 1>>, <<"mapsr", 1>>, <<"maexidr0", 1>>, <<"maexidr1", 1>>,
       <<"madpcr0", 1>>, <<"madpcr1", 1>>, <<"madpsr0", 1>>, <<"madpsr1", 1>>,
       <<"madpsr2", 1>>, <<"madpsr3", 1>>, <<"madpsr4", 1>>, <<"madpsr5", 1>>,
       <<"masbs0", 1>>, <<"masbs1", 1>>, <<"ma_reserved1", 1>>,
       <<"ma_reserved2", 1>>, <<"magenp", 1>>,
       <<"phy_base_offset_fill", FILL_WORDS>>,
       <<"mpzqhwctrl", 1>>, <<"mpzqswctrl", 1>>, <<"mpwlgcr", 1>>,
       <<"mpwldectrl0", 1>>, <<"mpwldectrl1", 1>>, <<"mpwldlst", 1>>,
       <<"mpodtctrl", 1>>, <<"mpredqby0dl", 1>>, <<"mpredqby1dl", 1>>,
       <<"mpredqby2dl", 1>>, <<"mpredqby3dl", 1>>, <<"mpwrdqby0dl", 1>>,
       <<"mpwrdqby1dl", 1>>, <<"mpwrdqby2dl", 1>>, <<"mpwrdqby3dl", 1>>,
       <<"mpdgctrl0", 1>>, <<"mpdgctrl1", 1>>, <<"mpdgdlst", 1>>,
       <<"mprddlctl", 1>>, <<"mprddlst", 1>>, <<"mpwrdlctl", 1>>,
       <<"mpwrdlst", 1>>, <<"mpsdctrl", 1>>, <<"mpzqlp2ctl", 1>>,
       <<"mprddlhwctl", 1>>, <<"mpwrdlhwctl", 1>>, <<"mprddlhwst0", 1>>,
       <<"mprddlhwst1", 1>>, <<"mpwrdlhwst0", 1>>, <<"mpwrdlhwst1", 1>>,
       <<"mpwlhwerr", 1>>, <<"mpdghwst0", 1>>, <<"mpdghwst1", 1>>,
       <<"mpdghwst2", 1>>, <<"mpdghwst3", 1>>, <<"mppdcmpr1", 1>>,
       <<"mppdcmpr2", 1>>, <<"mpswdar", 1>>, <<"mpswdrdr0", 1>>,
       <<"mpswdrdr1", 1>>, <<"mpswdrdr2", 1>>, <<"mpswdrdr3", 1>>,
       <<"mpswdrdr4", 1>>, <<"mpswdrdr5", 1>>, <<"mpswdrdr6", 1>>,
       <<"mpswdrdr7", 1>>, <<"mpmur", 1>>, <<"mpwrcadl", 1>>,
       <<"mpdccr", 1>>, <<"mpbc", 1>> >>

\* the names of the fields
FieldNames == {MMDC[k][1] : k \in 1 .. Len(MMDC)}

RECURSIVE WordsBefore(_)
\* words of the first k fields
WordsBefore(k) == IF k = 0 THEN 0 ELSE MMDC[k][2] + WordsBefore(k - 1)

FieldIndex(name) == CHOOSE k \in 1 .. Len(MMDC) : MMDC[k][1] = name

\* the offset counted in words instead of bytes
OffsetOf_Words(name) == WordsBefore(FieldIndex(name) - 1)

\* byte offset of a field from the start of the mapping
OffsetOf(name) == WORD * WordsBefore(FieldIndex(name) - 1)

\* bytes of a field
SizeOf(name) == WORD * MMDC[FieldIndex(name)][2]

\* size_of::<MMDC>()
SizeOfMMDC == WORD * WordsBefore(Len(MMDC))

\* the fields that are registers, i.e. all but the two fillers
NamedFields == FieldNames \ {"adopt_base_offset_fill", "phy_base_offset_fill"}

\* name, offset and size of every field
Slots == {<<f, OffsetOf(f), SizeOf(f)>> : f \in FieldNames}

\* no two fields share a byte
SlotsDisjoint ==
    \A a, b \in Slots : a # b => (a[2] + a[3] <= b[2] \/ b[2] + b[3] <= a[2])

\* offsets of the two registers the program stores to
MADPCR0 == OffsetOf("madpcr0")
MADPCR1 == OffsetOf("madpcr1")

(***************************************************************************)
(* Values the program writes to the control register madpcr0.              *)
(***************************************************************************)
\* 0x1: enable counters
CTL_ENABLE == 1
\* clear and start store the enable value instead of the reset value
CTL_RESET_Enable == CTL_ENABLE
\* 0xA: reset counters and clear overflow bit
CTL_RESET == 10
\* stop stores the enable value instead of clearing the register
CTL_DISABLE_Enable == CTL_ENABLE
\* 0x0: disable counters
CTL_DISABLE == 0
\* PRF_FRZ is bit 2 (0x4)
PRF_FRZ == 2

\* mmdc.madpcr0 = 0x4: the enable bit is lost
FreezeValue_Assign(ctl) == Pow2(PRF_FRZ)

\* the freeze bit is not set at all
FreezeValue_Skipped(ctl) == ctl

\* the freeze store also sets bit 3
FreezeValue_Bit3(ctl) == OrBit(OrBit(ctl, PRF_FRZ), 3)

\* mmdc.madpcr0 |= 0x4
FreezeValue(ctl) == OrBit(ctl, PRF_FRZ)

(***************************************************************************)
(* Inputs explored: command line, register contents at start-up, counter   *)
(* values the hardware can show, sleep overshoot.                          *)
(***************************************************************************)
\* -s: sleep time in milliseconds
SleepTimes == {0, 1000}
\* -m: Option<u32>, as a sequence of length 0 (None) or 1 (Some)
Overrides == {<<>>, <<63>>}
\* how many milliseconds thread::sleep may oversleep
Overshoot == {0, 1}

Opts == [sleeptime : SleepTimes, cycles : 0 .. MaxCycles, madpcr1 : Overrides]

\* values of the six accumulators
TotalVals     == {0, 100, 1000}
BusyVals      == {0, 53, 400}
ReadAccVals   == {0, 10}
WriteAccVals  == {0, 5}
ReadByteVals  == {0, 160}
WriteByteVals == {0, 80, 1048576}

Snapshots == [madpsr0 : TotalVals, madpsr1 : BusyVals, madpsr2 : ReadAccVals,
              madpsr3 : WriteAccVals, madpsr4 : ReadByteVals, madpsr5 : WriteByteVals]

\* the values each accumulator can show
CounterVals == [madpsr0 |-> TotalVals, madpsr1 |-> BusyVals, madpsr2 |-> ReadAccVals,
                madpsr3 |-> WriteAccVals, madpsr4 |-> ReadByteVals,
                madpsr5 |-> WriteByteVals]

ZeroCounters == [madpsr0 |-> 0, madpsr1 |-> 0, madpsr2 |-> 0,
                 madpsr3 |-> 0, madpsr4 |-> 0, madpsr5 |-> 0]

\* what the register window may hold when the program maps it: the counters
\* idle and cleared, or left running or stopped by an earlier run
InitControl  == {0, 1}
InitCounters == {ZeroCounters,
                 [madpsr0 |-> 1000, madpsr1 |-> 400, madpsr2 |-> 10,
                  madpsr3 |-> 5, madpsr4 |-> 160, madpsr5 |-> 80]}
InitMadpcr1  == {0, 63}

(***************************************************************************)
(* State.                                                                  *)
(***************************************************************************)
VARIABLES
    pc,          \* position of main / do_measuring_cylce
    opt,         \* the parsed options
    i,           \* iterations of `for _ in 0..opt.cycles` entered so far
    madpcr0,     \* control register of the counter bank
    madpcr1,     \* second control register, set by apply_options
    madpsr,      \* the six accumulators madpsr0..madpsr5
    dirty,       \* byte offsets of the registers stored to and not msync'ed since
    msync,       \* address (byte offset) and length of the last msync call
                 \* (<<>>: none yet)
    now,         \* wall clock in milliseconds (get_tick_count)
    start_time,  \* do_measuring_cylce's start_time
    results,     \* do_measuring_cylce's results (<<>> while not yet read)
    record,      \* the record printed by this cycle (<<>> while not printed)
    emitted,     \* records printed since the program started
    ctrlWrites,  \* values stored to madpcr0 since the last clear_mmdc call
    reads,       \* calls of get_mmdc_profiling_results in this cycle
    counted,     \* what the hardware has counted since the last store of 0x1
    rev_in,      \* what get_system_revision finds in the two files
    rev_out      \* what get_system_revision ended in (<<>>: not called)

vars == <<pc, opt, i, madpcr0, madpcr1, madpsr, dirty, msync, now, start_time,
          results, record, emitted, ctrlWrites, reads, counted, rev_in, rev_out>>

Init ==
    /\ pc = "apply_options"
    /\ opt \in Opts
    /\ i = 0
    /\ madpcr0 \in InitControl
    /\ madpcr1 \in InitMadpcr1
    /\ madpsr \in InitCounters
    /\ dirty = {}
    /\ msync = <<>>
    /\ now = 0
    /\ start_time = 0
    /\ results = <<>>
    /\ record = <<>>
    /\ emitted = 0
    /\ ctrlWrites = <<>>
    /\ reads = 0
    /\ counted = ZeroCounters
    /\ rev_in = <<>>
    /\ rev_out = <<>>

(***************************************************************************)
(* The counter hardware, as the comments of the control writes describe    *)
(* it: 0xA resets the counters, bit 0 enables them, PRF_FRZ holds them.    *)
(***************************************************************************)
Counting(ctl) == Bit(ctl, 0) = 1 /\ Bit(ctl, PRF_FRZ) = 0

\* the accumulators right after the store of v to the control register
CountersAfterWrite(v, counters) ==
    IF Bit(v, 1) = 1 THEN ZeroCounters ELSE counters

\* an accumulator advances while the counters are enabled and not frozen
HwCount ==
    /\ Counting(madpcr0)
    /\ \E reg \in DOMAIN madpsr :
          \E v \in CounterVals[reg] :
             /\ v > madpsr[reg]
             /\ madpsr' = [madpsr EXCEPT ![reg] = v]
             /\ counted' = [counted EXCEPT ![reg] = @ + (v - madpsr[reg])]
    /\ UNCHANGED <<pc, opt, i, madpcr0, madpcr1, dirty, msync, now, start_time,
                   results, record, emitted, ctrlWrites, reads,
                   rev_in, rev_out>>

(***************************************************************************)
(* The program.                                                            *)
(***************************************************************************)
\* the msync of the word after the control register
MsyncControl_Madpcr1 == <<MADPCR1, 4>>

\* msync(&mut mmdc.madpcr0, 4, MS_SYNC): address and length
MsyncControl == <<MADPCR0, 4>>

\* the stored words that msync(range) does not cover whole
Unsynced(stored, range) ==
    {o \in stored : ~(range[1] <= o /\ o + WORD <= range[1] + range[2])}

\* store v to madpcr0, then msync it
WriteControl(v) ==
    /\ madpcr0' = v
    /\ madpsr' = CountersAfterWrite(v, madpsr)
    /\ dirty' = Unsynced(dirty \cup {MADPCR0}, MsyncControl)
    /\ msync' = MsyncControl

\* the option is not looked at
OverrideValue_Ignored(o) == 0

\* match opt.madpcr1 { Some(addr) => addr, None => 0 }
OverrideValue(o) == IF o # <<>> THEN o[1] ELSE 0

\* fn apply_options
ApplyOptions ==
    /\ pc = "apply_options"
    /\ madpcr1' = OverrideValue(opt.madpcr1)
    /\ dirty' = Unsynced(dirty \cup {MADPCR1}, MsyncControl)
    /\ msync' = MsyncControl
    /\ pc' = "for"
    /\ UNCHANGED <<opt, i, madpcr0, madpsr, now, start_time, results, record,
                   emitted, ctrlWrites, reads, counted, rev_in, rev_out>>

\* the inclusive range 0..=opt.cycles
LoopContinues_Inclusive(n, cycles) == n <= cycles

\* `0..opt.cycles` yields another item
LoopContinues(n, cycles) == n < cycles

\* for _ in 0..opt.cycles { do_measuring_cylce(mmdc, &opt); }
ForLoop ==
    /\ pc = "for"
    /\ IF LoopContinues(i, opt.cycles)
       THEN /\ i' = i + 1
            /\ pc' = "clear"
            /\ results' = <<>>
            /\ record' = <<>>
            /\ reads' = 0
       ELSE /\ pc' = "done"
            /\ UNCHANGED <<i, results, record, reads>>
    /\ UNCHANGED <<opt, madpcr0, madpcr1, madpsr, dirty, msync, now, start_time,
                   emitted, ctrlWrites, counted, rev_in, rev_out>>

\* fn clear_mmdc
ClearMmdc ==
    /\ pc = "clear"
    /\ WriteControl(CTL_RESET)
    /\ ctrlWrites' = <<CTL_RESET>>
    /\ pc' = "start_time"
    /\ UNCHANGED <<opt, i, madpcr1, now, start_time, results, record, emitted, reads,
                   counted, rev_in, rev_out>>

\* let start_time = get_tick_count();
GetStartTime ==
    /\ pc = "start_time"
    /\ start_time' = now
    /\ pc' = "start_reset"
    /\ UNCHANGED <<opt, i, madpcr0, madpcr1, madpsr, dirty, msync, now, results,
                   record, emitted, ctrlWrites, reads,
                   counted, rev_in, rev_out>>

\* fn start_mmdc_profiling, first store
StartReset ==
    /\ pc = "start_reset"
    /\ WriteControl(CTL_RESET)
    /\ ctrlWrites' = Append(ctrlWrites, CTL_RESET)
    /\ pc' = "start_enable"
    /\ UNCHANGED <<opt, i, madpcr1, now, start_time, results, record, emitted, reads,
                   counted, rev_in, rev_out>>

\* fn start_mmdc_profiling, second store
StartEnable ==
    /\ pc = "start_enable"
    /\ WriteControl(CTL_ENABLE)
    /\ ctrlWrites' = Append(ctrlWrites, CTL_ENABLE)
    /\ counted' = ZeroCounters
    /\ pc' = "sleep"
    /\ UNCHANGED <<opt, i, madpcr1, now, start_time, results, record, emitted, reads,
                   rev_in, rev_out>>

\* the sleep returns without having waited for the duration
WakeTime_Early(t, ms, over) == t + over

\* thread::sleep sleeps for at least the duration
WakeTime(t, ms, over) == t + ms + over

\* thread::sleep(Duration::from_millis(opt.sleeptime))
Sleep ==
    /\ pc = "sleep"
    /\ \E over \in Overshoot : now' = WakeTime(now, opt.sleeptime, over)
    /\ pc' = "load"
    /\ UNCHANGED <<opt, i, madpcr0, madpcr1, madpsr, dirty, msync, start_time,
                   results, record, emitted, ctrlWrites, reads,
                   counted, rev_in, rev_out>>

\* fn load_mmdc_results
LoadMmdcResults ==
    /\ pc = "load"
    /\ WriteControl(FreezeValue(madpcr0))
    /\ ctrlWrites' = Append(ctrlWrites, FreezeValue(madpcr0))
    /\ pc' = "get_results"
    /\ UNCHANGED <<opt, i, madpcr1, now, start_time, results, record, emitted, reads,
                   counted, rev_in, rev_out>>

\* get_mmdc_profiling_results, tabulated once over the snapshots
ResultsTable == {<<s, get_mmdc_profiling_results(s)>> : s \in Snapshots}

ResultsOf(s) == (CHOOSE p \in ResultsTable : p[1] = s)[2]

\* a read that clears the accumulators it has read
GetResults_Clearing ==
    /\ pc = "get_results"
    /\ results' = <<ResultsOf(madpsr)>>
    /\ reads' = reads + 1
    /\ madpsr' = ZeroCounters
    /\ pc' = "print"
    /\ UNCHANGED <<opt, i, madpcr0, madpcr1, dirty, msync, now, start_time,
                   record, emitted, ctrlWrites, counted, rev_in, rev_out>>

\* let results = get_mmdc_profiling_results(mmdc);
GetResults ==
    /\ pc = "get_results"
    /\ results' = <<ResultsOf(madpsr)>>
    /\ reads' = reads + 1
    /\ pc' = "print"
    /\ UNCHANGED <<opt, i, madpcr0, madpcr1, madpsr, dirty, msync, now, start_time,
                   record, emitted, ctrlWrites, counted, rev_in, rev_out>>

\* (get_tick_count() - start_time) as u32; the wall clock is taken not to be
\* set back during a cycle, and the difference is far below 2^32
Elapsed(t1, t0) == t1 - t0

\* the elapsed times a cycle can measure
ElapsedTimes == {s + over : s \in SleepTimes, over \in Overshoot}

\* print_profiling_results, tabulated once over the results and elapsed times
RecordTable == {<<p[2], t, print_profiling_results(p[2], t)>> :
                    p \in ResultsTable, t \in ElapsedTimes}

RecordOf(r, t) == (CHOOSE p \in RecordTable : p[1] = r /\ p[2] = t)[3]

\* print_profiling_results(&results, (get_tick_count() - start_time) as u32, opt);
PrintResults ==
    /\ pc = "print"
    /\ record' = <<RecordOf(results[1], Elapsed(now, start_time))>>
    /\ emitted' = emitted + 1
    /\ pc' = "stop"
    /\ UNCHANGED <<opt, i, madpcr0, madpcr1, madpsr, dirty, msync, now, start_time,
                   results, ctrlWrites, reads, counted, rev_in, rev_out>>

\* fn stop_mmdc_profiling, and the return of do_measuring_cylce
StopMmdcProfiling ==
    /\ pc = "stop"
    /\ WriteControl(CTL_DISABLE)
    /\ ctrlWrites' = Append(ctrlWrites, CTL_DISABLE)
    /\ pc' = "for"
    /\ UNCHANGED <<opt, i, madpcr1, now, start_time, results, record, emitted, reads,
                   counted, rev_in, rev_out>>

\* the steps of the program
Program ==
    \/ ApplyOptions
    \/ ForLoop
    \/ ClearMmdc
    \/ GetStartTime
    \/ StartReset
    \/ StartEnable
    \/ Sleep
    \/ LoadMmdcResults
    \/ GetResults
    \/ PrintResults
    \/ StopMmdcProfiling

Next == Program \/ HwCount

Spec == Init /\ [][Next]_vars

\* the program is scheduled until it returns from main; the sleep ends
FairSpec == Spec /\ WF_vars(Program)

(***************************************************************************)
(* fn get_system_revision.  main does not call it; it is modelled as a     *)
(* function of what the two files give: whether each can be opened, what   *)
(* read returns, the text that the regular expression captures after       *)
(* "Revision :" in /proc/cpuinfo, and the text of the soc_id file.  Texts  *)
(* are sequences of characters.                                            *)
(***************************************************************************)
\* let mut buffer = [0_u8; 2048]
BUFFER_SIZE == 2048

\* the codes returned for the three known SoCs
REV_IMX6Q  == 405504
REV_IMX6DL == 397312
REV_IMX6SL == 393216

HexChars == <<"0", "1", "2", "3", "4", "5", "6", "7", "8", "9",
              "a", "b", "c", "d", "e", "f", "A", "B", "C", "D", "E", "F">>

\* the value of a hexadecimal digit, upper or lower case
HexValue(c) ==
    LET k == CHOOSE n \in 1 .. Len(HexChars) : HexChars[n] = c
    IN  IF k <= 16 THEN k - 1 ELSE k - 7

RECURSIVE from_str_radix(_, _)
\* u32::from_str_radix(digits, 16), continued from the value acc: <<value>>
\* for Ok, <<>> for Err on overflow of u32.  A value is held as its high and
\* low 16 bits, <<hi, lo>>.
from_str_radix(acc, digits) ==
    IF digits = <<>> THEN <<acc>>
    ELSE LET low  == acc[2] * 16 + HexValue(Head(digits))
             high == acc[1] * 16 + low \div 65536
         IN  IF high >= 65536 THEN <<>>
             ELSE from_str_radix(<<high, low % 65536>>, Tail(digits))

\* str::starts_with
starts_with(s, p) == Len(p) <= Len(s) /\ SubSeq(s, 1, Len(p)) = p

Ok(code) == [kind |-> "Ok", code |-> code, details |-> ""]

Err(details) == [kind |-> "Err", code |-> 0, details |-> details]

\* Option::unwrap on None, Result::unwrap on Err
Panic(details) == [kind |-> "panic", code |-> 0, details |-> details]

\* a read that returned Err, or Ok with no byte or with the buffer full
ReadFailed(r) == r = <<>> \/ r[1] = 0 \/ r[1] = BUFFER_SIZE

get_system_revision(in) ==
    IF ~in.cpuinfo_open THEN Err("Error opening /proc/cpuinfo")
    ELSE IF in.cpuinfo_read = <<>> THEN Err("Error reading cpu info")
    ELSE IF in.cpuinfo_read[1] = 0 \/ in.cpuinfo_read[1] = BUFFER_SIZE
    THEN Err("Error reading cpu info, no bytes read or buffer full")
    ELSE IF in.revision = <<>>
    THEN Panic("called Option::unwrap() on a None value")
    ELSE LET revision == from_str_radix(<<0, 0>>, in.revision)
         IN  IF revision = <<>>
             THEN Panic("called Result::unwrap() on an Err value")
             ELSE IF revision[1] = <<0, 0>>
             THEN IF ~in.soc_open
                  THEN Err("Error opening /sys/devices/soc0/soc_id")
                  ELSE IF in.soc_read = <<>> THEN Err("Error reading cpu info")
                  ELSE IF in.soc_read[1] = 0 \/ in.soc_read[1] = BUFFER_SIZE
                  THEN Err("Error reading soc id, no bytes read or buffer full")
                  ELSE IF starts_with(in.soc_id, <<"i", ".", "M", "X", "6", "Q">>)
                  THEN Ok(REV_IMX6Q)
                  ELSE IF starts_with(in.soc_id, <<"i", ".", "M", "X", "6", "D", "L">>)
                  THEN Ok(REV_IMX6DL)
                  ELSE IF starts_with(in.soc_id, <<"i", ".", "M", "X", "6", "S", "L">>)
                  THEN Ok(REV_IMX6SL)
                  ELSE Err("Unknown soc id2")
             ELSE Err("Unknown soc id")

\* what File::read returns: <<>> for Err, <<n>> for Ok(n)
ReadOutcomes == {<<>>, <<0>>, <<300>>, <<BUFFER_SIZE>>}

\* what the regular expression captures: <<>> when it does not match
RevisionTexts ==
    {<<>>, <<"0">>, <<"0", "0", "0", "0">>, <<"1", "0">>,
     <<"6", "3", "0", "0", "0">>,
     <<"F", "f", "F", "f", "F", "f", "F", "f">>,
     <<"1", "0", "0", "0", "0", "0", "0", "0", "0">>}

SocIdTexts ==
    {<<>>,
     <<"i", ".", "M", "X", "6", "Q">>,
     <<"i", ".", "M", "X", "6", "Q", "P">>,
     <<"i", ".", "M", "X", "6", "D", "L">>,
     <<"i", ".", "M", "X", "6", "S", "L">>,
     <<"i", ".", "M", "X", "6", "S", "X">>,
     <<"i", ".", "M", "X", "7", "D">>}

RevInputs == [cpuinfo_open : BOOLEAN, cpuinfo_read : ReadOutcomes,
              revision : RevisionTexts, soc_open : BOOLEAN,
              soc_read : ReadOutcomes, soc_id : SocIdTexts]

\* a call of get_system_revision, before anything else is done
RevInit ==
    /\ pc = "get_system_revision"
    /\ rev_in \in RevInputs
    /\ rev_out = <<>>
    /\ opt = [sleeptime |-> 0, cycles |-> 0, madpcr1 |-> <<>>]
    /\ i = 0
    /\ madpcr0 = 0
    /\ madpcr1 = 0
    /\ madpsr = ZeroCounters
    /\ dirty = {}
    /\ msync = <<>>
    /\ now = 0
    /\ start_time = 0
    /\ results = <<>>
    /\ record = <<>>
    /\ emitted = 0
    /\ ctrlWrites = <<>>
    /\ reads = 0
    /\ counted = ZeroCounters

GetSystemRevision ==
    /\ pc = "get_system_revision"
    /\ rev_out = <<>>
    /\ rev_out' = <<get_system_revision(rev_in)>>
    /\ UNCHANGED <<pc, opt, i, madpcr0, madpcr1, madpsr, dirty, msync, now,
                   start_time, results, record, emitted, ctrlWrites, reads,
                   counted, rev_in>>

RevSpec == RevInit /\ [][GetSystemRevision]_vars

(***************************************************************************)
(* Auxiliary operators of the properties.                                  *)
(***************************************************************************)
Last(q) == q[Len(q)]

RECURSIVE Collapse(_)
\* q without immediate repetitions: the values a register written with q held
Collapse(q) ==
    IF Len(q) <= 1 THEN q
    ELSE IF q[1] = q[2] THEN Collapse(Tail(q))
    ELSE <<q[1]>> \o Collapse(Tail(q))

IsPrefix(p, q) == Len(p) <= Len(q) /\ SubSeq(q, 1, Len(p)) = p

\* stores of this cycle that have the freeze bit 0x4 set
FreezeWrites(q) == Cardinality({n \in 1 .. Len(q) : Bit(q[n], 2) = 1})

\* this step stores 0xA to the control register
WroteReset == ctrlWrites' # ctrlWrites /\ Last(ctrlWrites') = 10

InCycle == pc \notin {"apply_options", "for", "done"}

\* this step stores to the control register
WroteControl == ctrlWrites' # ctrlWrites

\* this step stores to the control register with the freeze bit 0x4 set
WroteFreeze == WroteControl /\ Bit(Last(ctrlWrites'), 2) = 1

\* this step reads the accumulators
ReadCounters == reads' = reads + 1

(***************************************************************************)
(* C1.  In every measuring cycle the control register holds 0xA, then 0x1, *)
(* then 0x5, then 0x0, in this order, with no other value in between and   *)
(* none skipped: after clear and until the enable store it is 0xA, during  *)
(* the sleep 0x1, from freeze to stop 0x5, and 0x0 when the cycle returns. *)
(***************************************************************************)
C1_ControlSequence ==
    /\ ctrlWrites # <<>> => madpcr0 = Last(ctrlWrites)
    /\ IsPrefix(Collapse(ctrlWrites), <<10, 1, 5, 0>>)
    /\ pc \in {"start_time", "start_reset", "start_enable"} => madpcr0 = 10
    /\ pc \in {"sleep", "load"} => madpcr0 = 1
    /\ pc \in {"get_results", "print", "stop"} => madpcr0 = 5
    /\ (pc \in {"for", "done"} /\ i > 0) =>
           /\ madpcr0 = 0
           /\ Collapse(ctrlWrites) = <<10, 1, 5, 0>>

\* the second cycle has run through all four values
C1_Witness ==
    pc = "for" /\ i = 2 /\ Collapse(ctrlWrites) = <<10, 1, 5, 0>>

(***************************************************************************)
(* C2.  The accumulators are read only while the control register has the  *)
(* freeze bit 0x4 set, and each cycle has exactly one freeze store         *)
(* followed by exactly one read.                                           *)
(***************************************************************************)
C2_ReadOnlyFrozen ==
    /\ [](/\ reads <= 1
          /\ FreezeWrites(ctrlWrites) <= 1
          /\ (pc \in {"for", "done"} /\ i > 0) =>
                 reads = 1 /\ FreezeWrites(ctrlWrites) = 1)
    /\ [][reads' > reads =>
             /\ Bit(madpcr0, 2) = 1
             /\ madpcr0 \notin {0, 1, 10}
             /\ reads = 0
             /\ FreezeWrites(ctrlWrites) = 1]_vars

\* the counters have been read, after counting, in the frozen state
C2_Witness ==
    reads = 1 /\ pc = "print" /\ madpcr0 = 5 /\ madpsr.madpsr0 = 1000

(***************************************************************************)
(* C3.  Division by zero never occurs: when the denominator of a derived   *)
(* metric is zero, the metric is 0 in the result, also with bytes counted. *)
(***************************************************************************)
C3_ZeroDenominatorLeavesZero ==
    results # <<>> =>
        LET r == results[1]
        IN  /\ r.busy_cycles = 0 => r.utilization = 0
            /\ r.total_cycles = 0 => r.data_load = 0
            /\ r.read_accesses + r.write_accesses = 0 => r.access_utilization = 0

(***************************************************************************)
(* C4.  With read_bytes = 0 and write_bytes = 0 the three derived metrics  *)
(* are 0 whatever the cycle and access counters are, and the all-zero      *)
(* snapshot gives the all-zero result.                                     *)
(***************************************************************************)
C4_NoBytesNoMetrics ==
    results # <<>> =>
        LET r == results[1]
        IN  /\ (r.read_bytes = 0 /\ r.write_bytes = 0) =>
                   /\ r.utilization = 0
                   /\ r.data_load = 0
                   /\ r.access_utilization = 0
            /\ madpsr = ZeroCounters =>
                   \A f \in DOMAIN r : r[f] = 0

\* a result derived from a snapshot without bytes but with cycles counted
C4_Witness ==
    /\ results # <<>>
    /\ results[1].read_bytes = 0 /\ results[1].write_bytes = 0
    /\ results[1].busy_cycles = 400 /\ results[1].total_cycles = 1000
    /\ results[1].read_accesses = 10

(***************************************************************************)
(* C5.  With bytes counted and non-zero busy_cycles, total_cycles and      *)
(* read_accesses + write_accesses, the derived metrics are the integer     *)
(* floors of the exact quotients and the six raw fields are the snapshot.  *)
(***************************************************************************)
C5_ExactFloors ==
    results # <<>> =>
        LET r == results[1]
        IN  (/\ r.read_bytes # 0 \/ r.write_bytes # 0
             /\ r.busy_cycles # 0
             /\ r.total_cycles # 0
             /\ r.read_accesses + r.write_accesses # 0) =>
                /\ r.utilization =
                       ((r.read_bytes + r.write_bytes) * 100) \div (r.busy_cycles * 16)
                /\ r.data_load = (r.busy_cycles * 100) \div r.total_cycles
                /\ r.access_utilization =
                       (r.read_bytes + r.write_bytes)
                           \div (r.read_accesses + r.write_accesses)
                /\ r.total_cycles = madpsr.madpsr0
                /\ r.busy_cycles = madpsr.madpsr1
                /\ r.read_accesses = madpsr.madpsr2
                /\ r.write_accesses = madpsr.madpsr3
                /\ r.read_bytes = madpsr.madpsr4
                /\ r.write_bytes = madpsr.madpsr5

(***************************************************************************)
(* C6.  With write_accesses > 0 the write burst size is                    *)
(* floor(write_bytes / write_accesses), with read_accesses > 0 the read    *)
(* burst size is floor(read_bytes / read_accesses): each direction by its  *)
(* own access counter, whatever the byte counters are.                     *)
(***************************************************************************)
C6_BurstSizes ==
    results # <<>> =>
        LET r == results[1]
        IN  /\ r.write_accesses > 0 =>
                   r.avg_write_burstsize = r.write_bytes \div r.write_accesses
            /\ r.read_accesses > 0 =>
                   r.avg_read_burstsize = r.read_bytes \div r.read_accesses

\* both burst sizes derived, the write one by a division that truncates
C6_Witness ==
    /\ results # <<>>
    /\ results[1].write_accesses = 5 /\ results[1].write_bytes = 1048576
    /\ results[1].avg_write_burstsize = 209715
    /\ results[1].read_accesses = 10 /\ results[1].read_bytes = 160
    /\ results[1].avg_read_burstsize = 16

(***************************************************************************)
(* C7.  With write_accesses = 0 the write burst size is 0 and with         *)
(* read_accesses = 0 the read burst size is 0, whatever the byte counters  *)
(* and the other access counter are.                                       *)
(***************************************************************************)
C7_NoAccessNoBurst ==
    results # <<>> =>
        LET r == results[1]
        IN  /\ r.write_accesses = 0 => r.avg_write_burstsize = 0
            /\ r.read_accesses = 0 => r.avg_read_burstsize = 0

\* no write access but bytes written and read accesses counted
C7_Witness ==
    /\ results # <<>>
    /\ results[1].write_accesses = 0 /\ results[1].write_bytes = 80
    /\ results[1].read_accesses = 10
    /\ results[1].avg_write_burstsize = 0

(***************************************************************************)
(* C8.  The program runs exactly opt.cycles cycles one after another; each *)
(* cycle prints exactly one complete record; every started cycle stores    *)
(* 0x0 (stop) before the next cycle's clear; and after the last cycle the  *)
(* program terminates with the control register at 0x0.                    *)
(***************************************************************************)
RecordFields ==
    {"time", "total_cycles", "busy_cycles", "read_accesses", "write_accesses",
     "read_bytes", "write_bytes", "avg_read_burstsize", "avg_write_burstsize",
     "avg_read", "avg_write", "total", "utilization", "data_load",
     "access_utilization"}

C8_CyclesAndRecords ==
    /\ [](/\ i <= opt.cycles
          /\ pc = "apply_options" => i = 0 /\ emitted = 0
          /\ (InCycle /\ pc # "stop") => emitted = i - 1 /\ record = <<>>
          /\ pc = "stop" =>
                 emitted = i /\ record # <<>> /\ DOMAIN record[1] = RecordFields
          /\ pc \in {"for", "done"} => emitted = i
          /\ (pc = "clear" /\ i > 1) => madpcr0 = 0 /\ Last(ctrlWrites) = 0
          /\ pc = "done" =>
                 /\ i = opt.cycles
                 /\ emitted = opt.cycles
                 /\ opt.cycles > 0 => madpcr0 = 0 /\ Last(ctrlWrites) = 0)
    /\ <>(pc = "done")

\* the program has returned after two cycles and two records
C8_Witness ==
    pc = "done" /\ opt.cycles = 2 /\ i = 2 /\ emitted = 2 /\ madpcr0 = 0

(***************************************************************************)
(* C9.  In the printed record the read throughput is derived from          *)
(* read_bytes, the write throughput from write_bytes and the total from    *)
(* their sum, each as bytes * 1000 / (1024 * 1024 * elapsed_ms), printed   *)
(* with two decimals.                                                      *)
(***************************************************************************)
C9_ThroughputSources ==
    record # <<>> =>
        LET r == results[1]
            t == record[1].time
        IN  /\ record[1].avg_read = Fmt2(Throughput(U32ToF32(r.read_bytes), t))
            /\ record[1].avg_write = Fmt2(Throughput(U32ToF32(r.write_bytes), t))
            /\ record[1].total =
                   Fmt2(Throughput(F32Add(U32ToF32(r.write_bytes),
                                          U32ToF32(r.read_bytes)), t))

(***************************************************************************)
(* C10.  Between any two stores of 0xA to the control register there is a  *)
(* store of 0x0, the stores of start_mmdc_profiling included.              *)
(***************************************************************************)
C10_ResetOnlyAfterStop ==
    [][WroteReset => (ctrlWrites = <<>> \/ Last(ctrlWrites) = 0)]_vars

(***************************************************************************)
(* C10, amended.  A store of 0xA to the control register follows a store   *)
(* of 0x0 (or is the first store of the program), except the one store of  *)
(* 0xA that start_mmdc_profiling issues directly after the store of 0xA by *)
(* clear_mmdc of the same cycle; so between the clear_mmdc calls of two    *)
(* cycles there is always a store of 0x0.                                  *)
(***************************************************************************)
C10_ResetAfterStopOrClear ==
    [][WroteReset =>
          \/ ctrlWrites = <<>>
          \/ Last(ctrlWrites) = 0
          \/ (ctrlWrites = <<10>> /\ pc = "start_reset")]_vars

\* the clear of the second cycle has stored 0xA after the stop of the first
C10_Witness ==
    pc = "start_time" /\ i = 2 /\ ctrlWrites = <<10>> /\ emitted = 1

C12_FreezeAndReadAfterSleep ==
    [][/\ WroteFreeze =>
              /\ ctrlWrites = <<10, 10, 1>>
              /\ madpcr0 = 1
              /\ now - start_time >= opt.sleeptime
       /\ ReadCounters =>
              /\ ctrlWrites = <<10, 10, 1, 5>>
              /\ now - start_time >= opt.sleeptime]_vars

\* the accumulators of the second cycle have been read after a sleep of 1000 ms
C12_Witness ==
    /\ pc = "print"
    /\ i = 2
    /\ opt.sleeptime = 1000
    /\ reads = 1
    /\ now - start_time >= 1000

C14_OverrideOnceElseUntouched ==
    [][/\ (pc = "apply_options" /\ pc' # pc) =>
              /\ ctrlWrites = <<>>
              /\ opt.madpcr1 # <<>> => madpcr1' = opt.madpcr1[1]
              /\ opt.madpcr1 = <<>> => UNCHANGED <<madpcr0, madpcr1, madpsr>>
       /\ pc # "apply_options" =>
              (madpcr1' = madpcr1 /\ pc' # "apply_options")]_vars

(***************************************************************************)
(* C14, amended.  apply_options runs once, before the first store to the   *)
(* control register; it stores the override to madpcr1 when one is given   *)
(* and 0 when none is given, and changes neither the control register nor  *)
(* the accumulators; no later step changes madpcr1.                        *)
(***************************************************************************)
C14_OverrideOnceElseZero ==
    [][/\ (pc = "apply_options" /\ pc' # pc) =>
              /\ ctrlWrites = <<>>
              /\ madpcr1' = (IF opt.madpcr1 = <<>> THEN 0 ELSE opt.madpcr1[1])
              /\ UNCHANGED <<madpcr0, madpsr>>
       /\ pc # "apply_options" =>
              (madpcr1' = madpcr1 /\ pc' # "apply_options")]_vars

\* the second cycle runs with the override that apply_options stored
C14_Witness ==
    /\ pc = "stop"
    /\ i = 2
    /\ opt.madpcr1 = <<63>>
    /\ madpcr1 = 63

C16_EngineWritesControlOnly ==
    [][InCycle =>
          /\ madpcr1' = madpcr1
          /\ madpsr' # madpsr =>
                \/ /\ pc' = pc
                   /\ madpcr0' = madpcr0
                   /\ Bit(madpcr0, 0) = 1
                   /\ Bit(madpcr0, 2) = 0
                \/ /\ WroteControl
                   /\ Bit(Last(ctrlWrites'), 1) = 1
                   /\ madpsr' = ZeroCounters
          /\ madpcr0' # madpcr0 => (WroteControl /\ madpcr0' = Last(ctrlWrites'))
          /\ (pc = "load" /\ pc' # pc) =>
                /\ Bit(madpcr0', 2) = 1
                /\ Bit(madpcr0', 0) = 1
                /\ \A b \in (0 .. 30) \ {2} : Bit(madpcr0', b) = Bit(madpcr0, b)]_vars

\* frozen with the enable bit kept, counters and madpcr1 as the hardware and
\* apply_options left them
C16_Witness ==
    /\ pc = "get_results"
    /\ madpcr0 = 5
    /\ madpcr1 = 63
    /\ madpsr.madpsr0 = 1000
    /\ madpsr.madpsr5 = 1048576

(***************************************************************************)
(* C17.  With the hardware zeroing the accumulators on a store of 0xA,     *)
(* counting only while enabled and not frozen and holding while frozen,    *)
(* the six raw counters in the results of a cycle are exactly what the     *)
(* hardware counted since the enable store of this cycle; nothing counted  *)
(* before the program started, in an earlier cycle or between cycles is in *)
(* them.                                                                   *)
(***************************************************************************)
C17_ResultsAreWindowActivity ==
    results # <<>> =>
        /\ results[1].total_cycles   = counted.madpsr0
        /\ results[1].busy_cycles    = counted.madpsr1
        /\ results[1].read_accesses  = counted.madpsr2
        /\ results[1].write_accesses = counted.madpsr3
        /\ results[1].read_bytes     = counted.madpsr4
        /\ results[1].write_bytes    = counted.madpsr5

\* the second cycle reports a smaller activity than the first cycle printed
C17_Witness ==
    /\ pc = "print"
    /\ i = 2
    /\ emitted = 1
    /\ results[1].total_cycles = 100
    /\ results[1].busy_cycles = 53
    /\ results[1].write_bytes = 0

(***************************************************************************)
(* C18.  get_system_revision ends in a returned value on every input and   *)
(* never aborts; it returns Ok only with 0x63000, 0x61000 or 0x60000, and  *)
(* only when the revision is zero and the soc_id starts with i.MX6Q,       *)
(* i.MX6DL or i.MX6SL respectively; it returns Err when a file cannot be   *)
(* opened or read, when no Revision can be decoded from the cpuinfo text,  *)
(* and when the soc_id is not recognised.                                  *)
(***************************************************************************)
C18_RevisionAlwaysReturns ==
    rev_out # <<>> =>
        LET r == rev_out[1]
            decoded == rev_in.revision # <<>> /\ Len(rev_in.revision) <= 8
            zero == \A k \in 1 .. Len(rev_in.revision) : rev_in.revision[k] = "0"
            cpuinfo_ok == rev_in.cpuinfo_open /\ ~ReadFailed(rev_in.cpuinfo_read)
            soc_ok == rev_in.soc_open /\ ~ReadFailed(rev_in.soc_read)
            Known(p) == starts_with(rev_in.soc_id, p)
        IN  /\ r.kind \in {"Ok", "Err"}
            /\ r.kind = "Ok" =>
                  /\ cpuinfo_ok /\ decoded /\ zero /\ soc_ok
                  /\ r.code \in {405504, 397312, 393216}
                  /\ r.code = 405504 => Known(<<"i", ".", "M", "X", "6", "Q">>)
                  /\ r.code = 397312 => Known(<<"i", ".", "M", "X", "6", "D", "L">>)
                  /\ r.code = 393216 => Known(<<"i", ".", "M", "X", "6", "S", "L">>)
            /\ ~cpuinfo_ok => r.kind = "Err"
            /\ (cpuinfo_ok /\ ~decoded) => r.kind = "Err"
            /\ (cpuinfo_ok /\ decoded /\ zero /\ ~soc_ok) => r.kind = "Err"
            /\ (cpuinfo_ok /\ decoded /\ zero /\ soc_ok
                  /\ ~Known(<<"i", ".", "M", "X", "6", "Q">>)
                  /\ ~Known(<<"i", ".", "M", "X", "6", "D", "L">>)
                  /\ ~Known(<<"i", ".", "M", "X", "6", "S", "L">>)) => r.kind = "Err"

====
